---- MODULE Spec2Model ----
(***************************************************************************)
(* Model of src/main.py ("Protect"): a scheduler that repeatedly sweeps    *)
(* the container volumes, evaluates the loaded strategies against every    *)
(* unflagged container and, on a non-empty flag list, suspends the server, *)
(* sends a public and a private alert and records the container in         *)
(* flagged_containers / flagged.json.                                      *)
(***************************************************************************)
EXTENDS Integers, Sequences, FiniteSets, TLC

(***************************************************************************)
(* Bounds of the model and program constants.                              *)
(***************************************************************************)
\* Saturation cap of the request counters kept per container.
MaxCount == 2

\* Number of process restarts explored by SpecRestart.
MaxRestarts == 1

\* Longest list of checks of a strategy passed to execute_strategy on its own.
MaxChecks == 2

\* Longest list of strategies passed to check_volume on its own.
MaxStrategies == 2

\* Largest number of rule files passed to load_strategies on its own.
MaxFiles == 3

\* Longest template (in tokens) passed to replace_placeholders on its own.
MaxTokens == 2

\* Largest number of network interfaces in the stats of a container.
MaxIfaces == 2

\* asyncio.sleep(180) in main().
SCAN_INTERVAL == 180

\* The container identifiers (entries of VOLUMES_DIR).
Ids == {"u1", "u2"}

\* The coroutines that may run scan_all_containers.
Tasks == {"t1", "t2"}

\* Python's None, as returned by get_server_id_from_uuid.
None == "None"

\* The panel's answer for a container it knows: attributes.id of the server
\* whose attributes.uuid equals the container identifier.
PanelId(uuid) == IF uuid = "u1" THEN "srv1" ELSE "srv2"

(***************************************************************************)
(* Values returned by the evaluators: Python False, an evidence dict, or   *)
(* an exception propagating to the caller.                                 *)
(***************************************************************************)
False_ == [res |-> "False"]
Raised == [res |-> "raise"]
Evidence(d) == [res |-> "evidence", data |-> d]

\* JSON values whose type the code depends on.
JList(s) == [t |-> "list", v |-> s]
JStr(s) == [t |-> "str", v |-> s]
JNum(n) == [t |-> "num", v |-> n]

\* dict.get(key, default)
Get(d, k, default) == IF k \in DOMAIN d THEN d[k] ELSE default

\* Truthiness of a string-valued dict entry that may be missing.
Truthy(d, k) == k \in DOMAIN d /\ d[k] # ""

(***************************************************************************)
(* Message templates: a template is a sequence of tokens, a literal text   *)
(* or a {placeholder}; a rendered message is the sequence of pieces.       *)
(***************************************************************************)
Lit(s) == [lit |-> s]
Ph(n) == [ph |-> n]
Txt(s) == [s |-> s]
Num2(n) == [fixed2 |-> n]

Placeholders == {"pattern", "filename", "dependency", "usage", "processes"}

DefaultMessage == <<Lit("An undefined issue was detected")>>

\* f"{x / 1024 / 1024:.2f}": x/2^20 is exact in binary floating point, and
\* the format rounds the exact value to two decimals, ties to even.  The
\* result is the number of hundredths.
ToFixed2(bytes) ==
    LET num == bytes * 100
        den == 1048576
        q == num \div den
        r == num % den
    IN  IF 2 * r > den THEN q + 1
        ELSE IF 2 * r < den THEN q
        ELSE IF q % 2 = 0 THEN q ELSE q + 1

\* The characters "{:.2f}" writes for a number of hundredths.
Fixed2String(n) ==
    ToString(n \div 100) \o "." \o (IF n % 100 < 10 THEN "0" ELSE "")
        \o ToString(n % 100)

\* The string a sequence of rendered pieces is.
RECURSIVE Text(_)
Text(pieces) ==
    IF pieces = <<>> THEN ""
    ELSE (IF "s" \in DOMAIN Head(pieces) THEN Head(pieces).s
          ELSE Fixed2String(Head(pieces).fixed2))
         \o Text(Tail(pieces))

\* ', '.join(data.get('processes', []))
RECURSIVE JoinComma(_)
JoinComma(ps) ==
    IF ps = <<>> THEN <<>>
    ELSE IF Len(ps) = 1 THEN <<Txt(ps[1])>>
    ELSE <<Txt(ps[1]), Txt(", ")>> \o JoinComma(Tail(ps))

\* The five keyword arguments all taken with data.get(name, ''): an absent
\* usage is the empty string, not zero.
FormatArgAllText(name, data) ==
    IF name \notin DOMAIN data THEN <<Txt("")>>
    ELSE CASE name = "usage" -> <<Num2(ToFixed2(data.usage))>>
           [] name = "processes" -> JoinComma(data.processes)
           [] OTHER -> <<Txt(data[name])>>

\* One keyword argument of template.format(...).
FormatArg(name, data) ==
    CASE name = "pattern" -> <<Txt(Get(data, "pattern", ""))>>
      [] name = "filename" -> <<Txt(Get(data, "filename", ""))>>
      [] name = "dependency" -> <<Txt(Get(data, "dependency", ""))>>
      [] name = "usage" -> <<Num2(ToFixed2(Get(data, "usage", 0)))>>
      [] name = "processes" -> JoinComma(Get(data, "processes", <<>>))

RECURSIVE FormatTokens(_, _)
FormatTokens(template, data) ==
    IF template = <<>> THEN <<>>
    ELSE LET tok == Head(template)
         IN  (IF "lit" \in DOMAIN tok THEN <<Txt(tok.lit)>>
              ELSE FormatArg(tok.ph, data))
             \o FormatTokens(Tail(template), data)

\* replace_placeholders: str.format raises KeyError on a placeholder that is
\* not one of the five keyword arguments.  The five arguments are computed
\* at every call; with the values the evaluators put into an Evidence (a
\* number for usage, a list of strings for processes) none of them raises.
replace_placeholders(template, data) ==
    IF \E i \in 1..Len(template) :
          "ph" \in DOMAIN template[i] /\ template[i].ph \notin Placeholders
    THEN Raised
    ELSE [res |-> "ok", msg |-> FormatTokens(template, data)]

(***************************************************************************)
(* The container context: what the volume directory and the live container *)
(* hold at the moment of a check.                                          *)
(*   files     path under the volume root -> state of that path            *)
(*   logs      container.logs(tail=1000): whether the call returns, and    *)
(*             the patterns its case-folded text contains                  *)
(*   exec      container.exec_run(cmd): whether it returns, and its lines  *)
(*   networks  stats['networks'].values(); statsOk: container.stats        *)
(*             returns                                                     *)
(***************************************************************************)
Absent ==
    [kind |-> "absent", readable |-> FALSE, has |-> {}, size |-> 0,
     deps |-> JList(<<>>), glob |-> <<>>]

\* A regular file: the patterns its text contains, its size, and what
\* json.load makes of it (deps: the keys of dependencies and
\* devDependencies, or a JStr when the text is no JSON object).
RegularFile(readable, has, size, deps) ==
    [kind |-> "file", readable |-> readable, has |-> has, size |-> size,
     deps |-> deps, glob |-> <<>>]

\* A directory: glob maps a pattern to the entries it matches, in order.
Directory(size, glob) ==
    [kind |-> "dir", readable |-> TRUE, has |-> {}, size |-> size,
     deps |-> JList(<<>>), glob |-> glob]

\* A key of dependencies: its name and the patterns that occur in it, case
\* folded.
Dep(name, has) == [name |-> name, has |-> has]

\* One line of the exec output: the number of whitespace separated columns
\* and column 8 (a number, or text that float() rejects).
PsLine(text, columns, cpu) == [text |-> text, columns |-> columns, cpu |-> cpu]

File(ctx, path) == IF path \in DOMAIN ctx.files THEN ctx.files[path] ELSE Absent

\* os.path.exists(path)
Exists(ctx, path) == File(ctx, path).kind # "absent"

\* os.path.basename of a path under the volume root.
Basename(path) ==
    CASE path = "config/server.properties" -> "server.properties"
      [] path = "plugins/" -> ""
      [] OTHER -> path

\* glob.glob(os.path.join(target_path, pattern)), as base names.
Glob(ctx, path, pattern) ==
    LET f == File(ctx, path)
    IN  IF f.kind = "dir" /\ pattern \in DOMAIN f.glob THEN f.glob[pattern] ELSE <<>>

\* The first pattern, in order, whose position is in hits (the positions of
\* the patterns that are found); <<>> when there is none.
FirstPattern(patterns, hits) ==
    IF hits = {} THEN <<>>
    ELSE <<patterns[CHOOSE i \in hits : \A j \in hits : i <= j]>>

(***************************************************************************)
(* Evaluators.  Each returns False_, an Evidence, or Raised when an        *)
(* exception leaves the function.                                          *)
(***************************************************************************)
file_existence_check(ctx, check_config) ==
    LET patterns == Get(check_config, "patterns", <<>>)
        Hit(pattern) == Glob(ctx, check_config.path, pattern) # <<>>
        first == FirstPattern(patterns, {k \in DOMAIN patterns : Hit(patterns[k])})
    IN  IF first = <<>> THEN False_
        ELSE Evidence([filename |->
                 Basename(Glob(ctx, check_config.path, first[1])[1])])

\* open() is not inside a try: a directory or an unreadable file raises.
file_content_check(ctx, check_config) ==
    LET patterns == Get(check_config, "patterns", <<>>)
        f == File(ctx, check_config.path)
        Hit(pattern) == pattern \in f.has
        first == FirstPattern(patterns, {k \in DOMAIN patterns : Hit(patterns[k])})
    IN  IF ~Exists(ctx, check_config.path) THEN False_
        ELSE IF f.kind = "dir" \/ ~f.readable THEN Raised
        ELSE IF first = <<>> THEN False_
        ELSE Evidence([pattern |-> first[1]])

\* size > max_size is not inside a try: a max_size that is no number raises
\* TypeError.
file_size_check(ctx, check_config) ==
    LET max_size == Get(check_config, "max_size", JNum(0))
        f == File(ctx, check_config.path)
    IN  IF ~Exists(ctx, check_config.path) THEN False_
        ELSE IF max_size.t # "num" THEN Raised
        ELSE IF f.size > max_size.v
        THEN Evidence([filename |-> Basename(check_config.path)])
        ELSE False_

file_check(ctx, check_config) ==
    IF ~Truthy(check_config, "path") THEN False_
    ELSE CASE check_config.type = "file_existence" ->
                file_existence_check(ctx, check_config)
           [] check_config.type = "file_content" ->
                file_content_check(ctx, check_config)
           [] check_config.type = "file_size" ->
                file_size_check(ctx, check_config)
           [] OTHER -> Raised

\* The first dependency name, in the order of the dict, that contains the
\* pattern; <<>> when none does.
RECURSIVE FirstDep(_, _)
FirstDep(deps, pattern) ==
    IF deps = <<>> THEN <<>>
    ELSE IF pattern \in Head(deps).has THEN <<Head(deps).name>>
    ELSE FirstDep(Tail(deps), pattern)

\* open and json.load are inside try/except Exception.
dependency_check(ctx, check_config) ==
    LET file_name == Get(check_config, "file", "package.json")
        patterns == Get(check_config, "patterns", <<>>)
        f == File(ctx, file_name)
        parsed == f.kind = "file" /\ f.readable /\ f.deps.t = "list"
        Hit(pattern) == FirstDep(f.deps.v, pattern) # <<>>
        first == IF parsed THEN FirstPattern(patterns, {k \in DOMAIN patterns : Hit(patterns[k])}) ELSE <<>>
    IN  IF ~Exists(ctx, file_name) THEN False_
        ELSE IF first = <<>> THEN False_
        ELSE Evidence([dependency |-> FirstDep(f.deps.v, first[1])[1]])

log_content_check(ctx, check_config) ==
    LET patterns == Get(check_config, "patterns", <<>>)
        Hit(pattern) == pattern \in ctx.logs.has
        first == FirstPattern(patterns, {k \in DOMAIN patterns : Hit(patterns[k])})
    IN  IF ~ctx.logs.ok THEN False_
        ELSE IF first = <<>> THEN False_
        ELSE Evidence([pattern |-> first[1]])

\* The lines with more than 8 columns whose column 8 is a number above the
\* threshold; the comparison with a threshold that is no number raises
\* TypeError, which the outer except turns into False.
process_check(ctx, check_config) ==
    LET cpu_threshold == Get(check_config, "cpu_threshold", JNum(0))
        Parsed(line) == line.columns > 8 /\ line.cpu.t = "num"
        High(line) == Parsed(line) /\ line.cpu.v > cpu_threshold.v
        compared == { i \in DOMAIN ctx.exec.lines : Parsed(ctx.exec.lines[i]) }
        high_cpu_processes == SelectSeq(ctx.exec.lines, High)
    IN  IF ~ctx.exec.ok THEN False_
        ELSE IF compared # {} /\ cpu_threshold.t # "num" THEN False_
        ELSE IF compared = {} \/ high_cpu_processes = <<>> THEN False_
        ELSE Evidence([processes |->
                 [i \in DOMAIN high_cpu_processes |-> high_cpu_processes[i].text]])

RECURSIVE SumUsage(_)
SumUsage(nets) ==
    IF nets = <<>> THEN 0
    ELSE Get(Head(nets), "rx_bytes", 0) + Get(Head(nets), "tx_bytes", 0)
         + SumUsage(Tail(nets))

\* total_usage >= threshold instead of >.
network_usage_check_inclusive(ctx, check_config) ==
    LET threshold == Get(check_config, "threshold", JNum(0))
        total_usage == SumUsage(ctx.networks)
    IN  IF ~ctx.statsOk THEN False_
        ELSE IF threshold.t # "num" THEN False_
        ELSE IF total_usage >= threshold.v THEN Evidence([usage |-> total_usage])
        ELSE False_

\* container.stats and the comparison are inside try/except Exception.
network_usage_check(ctx, check_config) ==
    LET threshold == Get(check_config, "threshold", JNum(0))
        total_usage == SumUsage(ctx.networks)
    IN  IF ~ctx.statsOk THEN False_
        ELSE IF threshold.t # "num" THEN False_
        ELSE IF total_usage > threshold.v THEN Evidence([usage |-> total_usage])
        ELSE False_

FileKinds == {"file_existence", "file_content", "file_size"}

\* The body of the for loop of execute_strategy for one check: "invalid"
\* and "unknown" end in continue, "caught" in the except clause, "nomatch"
\* and "flag" at the end of the try block.
CheckOutcome(check_config, ctx) ==
    IF "notdict" \in DOMAIN check_config \/ ~Truthy(check_config, "type")
    THEN [res |-> "invalid"]
    ELSE
      LET message_template == Get(check_config, "message", DefaultMessage)
          kind == check_config.type
          known == kind \in FileKinds \cup
                     {"dependency", "log_content", "process_check", "network_usage"}
          flag_data ==
            CASE kind \in FileKinds -> file_check(ctx, check_config)
              [] kind = "dependency" -> dependency_check(ctx, check_config)
              [] kind = "log_content" -> log_content_check(ctx, check_config)
              [] kind = "process_check" -> process_check(ctx, check_config)
              [] kind = "network_usage" -> network_usage_check(ctx, check_config)
              [] OTHER -> False_
      IN  IF ~known THEN [res |-> "unknown"]
          ELSE IF flag_data.res = "raise" THEN [res |-> "caught", at |-> "evaluate"]
          ELSE IF flag_data.res # "evidence" THEN [res |-> "nomatch"]
          ELSE LET message == replace_placeholders(message_template, flag_data.data)
               IN  IF message.res = "ok"
                   THEN [res |-> "flag", msg |-> message.msg]
                   ELSE [res |-> "caught", at |-> "render"]

\* The flags the loop body appends (none or one).
CheckFlags(check_config, ctx) ==
    LET r == CheckOutcome(check_config, ctx)
    IN  IF r.res = "flag" THEN <<r.msg>> ELSE <<>>

\* The dispatcher raising on a kind it does not know, uncaught: the loop
\* ends at the check.
LoopEndsAtUnknown(outcome) ==
    IF outcome.res \in {"invalid", "unknown"} THEN "return" ELSE "next"

\* The try statement around the loop instead of inside it: the loop ends
\* at the first exception.
LoopEndsAtException(outcome) ==
    IF outcome.res = "caught" THEN "return" ELSE "next"

\* What the for loop does after the body ended with the outcome: continue,
\* the end of the try block and the except clause all go to the next check.
LoopAfter(outcome) == "next"

RECURSIVE ChecksFlags(_, _)
ChecksFlags(checks, ctx) ==
    IF checks = <<>> THEN <<>>
    ELSE CheckFlags(Head(checks), ctx)
         \o (IF LoopAfter(CheckOutcome(Head(checks), ctx)) = "next"
             THEN ChecksFlags(Tail(checks), ctx) ELSE <<>>)

\* execute_strategy(strategy, volume_path, container)
execute_strategy(strategy, ctx) ==
    IF strategy.checks.t # "list" THEN <<>>
    ELSE ChecksFlags(strategy.checks.v, ctx)

RECURSIVE StrategiesFlags(_, _)
StrategiesFlags(strats, ctx) ==
    IF strats = <<>> THEN <<>>
    ELSE execute_strategy(Head(strats), ctx) \o StrategiesFlags(Tail(strats), ctx)

\* check_volume without the except clauses around containers.get: the
\* strategies run against a container that cannot be had.
check_volume_unguarded(w, exc, strats) ==
    IF ~w.volume
    THEN [res |-> "ok", flags |-> <<>>, evaluated |-> FALSE, why |-> "novolume"]
    ELSE IF w.ctx.fault THEN Raised
    ELSE [res |-> "ok", flags |-> StrategiesFlags(strats, w.ctx),
          evaluated |-> TRUE, why |-> "scanned"]

\* check_volume(uuid, strategies): w is the state of the container's volume
\* directory and of the container itself, exc the exception that
\* docker_client.containers.get raises when the container cannot be had.
\* The result says why the function returned and whether the strategies
\* were evaluated; an exception escaping the function is Raised.
check_volume(w, exc, strats) ==
    IF ~w.volume
    THEN [res |-> "ok", flags |-> <<>>, evaluated |-> FALSE, why |-> "novolume"]
    ELSE IF ~w.container
    THEN [res |-> "ok", flags |-> <<>>, evaluated |-> FALSE, why |-> exc]
    ELSE IF w.ctx.fault THEN Raised
    ELSE [res |-> "ok", flags |-> StrategiesFlags(strats, w.ctx),
          evaluated |-> TRUE, why |-> "scanned"]

(***************************************************************************)
(* Rule files and load_strategies.                                         *)
(***************************************************************************)
\* A *.protect file: text that json.load parses to an object, to another
\* JSON value, or not at all.
JsonObject(o) == [parse |-> "object", obj |-> o]
JsonOther == [parse |-> "other"]
JsonInvalid == [parse |-> "error"]

\* The test of the structure without its third part: any checks value, or
\* none, is accepted.
ValidStrategyAnyChecks(file) ==
    /\ file.parse = "object"
    /\ Truthy(file.obj, "name")
    /\ Truthy(file.obj, "type")

\* json.load(f) returned a dict and the if at line 148 did not reject it.
ValidStrategy(file) ==
    /\ file.parse = "object"
    /\ Truthy(file.obj, "name")
    /\ Truthy(file.obj, "type")
    /\ "checks" \in DOMAIN file.obj
    /\ file.obj.checks.t = "list"

RECURSIVE load_strategies(_)
load_strategies(files) ==
    IF files = <<>> THEN <<>>
    ELSE (IF ValidStrategy(Head(files)) THEN <<Head(files).obj>> ELSE <<>>)
         \o load_strategies(Tail(files))

(***************************************************************************)
(* The rule directories, container contexts and volume states explored.    *)
(***************************************************************************)
CheckExe ==
    [type |-> "file_existence", path |-> ".", patterns |-> <<"*.exe">>,
     message |-> <<Lit("Executable found: "), Ph("filename")>>]

CheckBogus == [type |-> "crypto_scan", message |-> <<Lit("never")>>]

CheckContent ==
    [type |-> "file_content", path |-> "server.properties",
     patterns |-> <<"online-mode=false">>,
     message |-> <<Lit("Pattern "), Ph("pattern")>>]

CheckNet ==
    [type |-> "network_usage", threshold |-> JNum(1000000),
     message |-> <<Lit("Network usage "), Ph("usage"), Lit(" MB")>>]

StratMiner ==
    [name |-> "miner", type |-> "abuse",
     checks |-> JList(<<CheckExe, CheckBogus, CheckContent>>)]

StratNet == [name |-> "net", type |-> "network", checks |-> JList(<<CheckNet>>)]

FileNoChecks == JsonObject([name |-> "broken", type |-> "abuse"])

\* STRATEGIES_DIR as deployed, and after its rule files were replaced by
\* files the loader rejects.
RulesDeployed == <<JsonObject(StratMiner), JsonInvalid, JsonObject(StratNet)>>
RulesBroken == <<FileNoChecks, JsonOther>>
RuleDirs == {RulesDeployed, RulesBroken}

NoLogs == [ok |-> TRUE, has |-> {}]
NoOutput == [ok |-> TRUE, lines |-> <<>>]

\* A container nothing is wrong with.
CtxClean ==
    [files |-> [p \in {".", "server.properties"} |->
                  IF p = "." THEN Directory(4096, <<>>)
                  ELSE RegularFile(TRUE, {"motd=hello"}, 120, JStr("notjson"))],
     logs |-> NoLogs, exec |-> NoOutput,
     networks |-> <<[rx_bytes |-> 10, tx_bytes |-> 20]>>,
     statsOk |-> TRUE, fault |-> FALSE]

\* A container with a miner in its volume root, a directory where
\* server.properties should be, and 1,100,000 bytes of traffic.
CtxDirty ==
    [files |-> [p \in {".", "server.properties"} |->
                  IF p = "." THEN Directory(4096, [x \in {"*.exe"} |-> <<"xmrig.exe">>])
                  ELSE Directory(4096, <<>>)],
     logs |-> NoLogs, exec |-> NoOutput,
     networks |-> <<[rx_bytes |-> 600000, tx_bytes |-> 500000]>>,
     statsOk |-> TRUE, fault |-> FALSE]

CtxFault == [CtxDirty EXCEPT !.fault = TRUE]

\* A container that mines: executables in the volume root, a dependency and
\* a log line that give it away, a process at 97 % CPU.
CtxBusy ==
    [files |-> [p \in {".", "package.json", "config/server.properties"} |->
                  CASE p = "." ->
                         Directory(4096, [x \in {"*.exe"} |-> <<"a.exe", "xmrig.exe">>])
                    [] p = "package.json" ->
                         RegularFile(TRUE, {}, 300,
                            JList(<<Dep("express", {}),
                                    Dep("malicious-lib-v2", {"malicious-lib"})>>))
                    [] OTHER ->
                         RegularFile(TRUE, {"online-mode=false"}, 2000000,
                                     JStr("notjson"))],
     logs |-> [ok |-> TRUE, has |-> {"stratum+tcp"}],
     exec |-> [ok |-> TRUE,
               lines |-> <<PsLine("PID USER %CPU", 12, JStr("%CPU")),
                           PsLine("1 root xmrig", 12, JNum(97)),
                           PsLine("top - up", 3, JNum(99)),
                           PsLine("2 root java", 12, JNum(5))>>],
     networks |-> <<[rx_bytes |-> 700000], [rx_bytes |-> 100000, tx_bytes |-> 400000]>>,
     statsOk |-> TRUE, fault |-> FALSE]

\* A container whose files cannot be read and whose daemon calls fail.
CtxBroken ==
    [files |-> [p \in {".", "package.json", "server.properties"} |->
                  CASE p = "." -> Directory(4096, <<>>)
                    [] p = "package.json" ->
                         RegularFile(TRUE, {}, 10, JStr("notjson"))
                    [] OTHER -> RegularFile(FALSE, {}, 50, JStr("notjson"))],
     logs |-> [ok |-> FALSE, has |-> {}],
     exec |-> [ok |-> FALSE, lines |-> <<>>],
     networks |-> <<>>,
     statsOk |-> FALSE, fault |-> FALSE]

Contexts == {CtxClean, CtxDirty, CtxBusy, CtxBroken}

\* More checks, well-formed and not.
CheckSizeText ==
    [type |-> "file_size", path |-> ".", max_size |-> JStr("10MB"),
     message |-> <<Lit("Too big: "), Ph("filename")>>]

CheckNoType == [path |-> ".", message |-> <<Lit("never")>>]

CheckNotDict == [notdict |-> TRUE]

CheckHash ==
    [type |-> "file_existence", path |-> ".", patterns |-> <<"*.exe">>,
     message |-> <<Lit("Hash "), Ph("hash")>>]

CheckAnyTraffic == [type |-> "network_usage"]

CheckLogs ==
    [type |-> "log_content", patterns |-> <<"stratum+tcp">>,
     message |-> <<Lit("Log "), Ph("pattern"), Ph("filename")>>]

CheckCpu ==
    [type |-> "process_check", command |-> "top -b -n 1", cpu_threshold |-> JNum(50),
     message |-> <<Lit("CPU "), Ph("processes")>>]

CheckDep ==
    [type |-> "dependency", patterns |-> <<"left-pad", "malicious-lib">>,
     message |-> <<Lit("Dependency "), Ph("dependency")>>]

CheckPool ==
    {CheckExe, CheckBogus, CheckContent, CheckNet, CheckSizeText, CheckNoType,
     CheckNotDict, CheckHash, CheckAnyTraffic, CheckLogs, CheckCpu, CheckDep}

\* The sequences over S of length at most n.
SeqsUpTo(S, n) == UNION { [1..k -> S] : k \in 0..n }

StrategyOf(checks) == [name |-> "s", type |-> "abuse", checks |-> JList(checks)]

StrategyPool == {StratMiner, StratNet, StrategyOf(<<CheckHash, CheckLogs>>)}

\* The check configs each evaluator is called with on its own.
EvaluatorConfigs ==
    [kind \in FileKinds \cup
              {"dependency", "log_content", "process_check", "network_usage"} |->
       CASE kind = "file_existence" ->
              {CheckExe,
               [type |-> kind, path |-> ".", patterns |-> <<"*.jar", "*.exe">>],
               [type |-> kind, path |-> "server.properties", patterns |-> <<"*.exe">>],
               [type |-> kind, path |-> "."]}
         [] kind = "file_content" ->
              {CheckContent,
               [type |-> kind, path |-> "config/server.properties",
                patterns |-> <<"op=true", "online-mode=false">>],
               [type |-> kind, path |-> "missing.txt", patterns |-> <<"x">>],
               [type |-> kind, path |-> "."]}
         [] kind = "file_size" ->
              {CheckSizeText,
               [type |-> kind, path |-> "config/server.properties",
                max_size |-> JNum(1000000)],
               [type |-> kind, path |-> "config/server.properties",
                max_size |-> JNum(2000000)],
               [type |-> kind, path |-> "missing.txt", max_size |-> JStr("10MB")],
               [type |-> kind, path |-> "package.json"]}
         [] kind = "dependency" ->
              {CheckDep,
               [type |-> kind, patterns |-> <<"express">>],
               [type |-> kind, file |-> "server.properties", patterns |-> <<"x">>],
               [type |-> kind]}
         [] kind = "log_content" ->
              {CheckLogs, [type |-> kind, patterns |-> <<"panic">>], [type |-> kind]}
         [] kind = "process_check" ->
              {CheckCpu,
               [type |-> kind, command |-> "top", cpu_threshold |-> JNum(97)],
               [type |-> kind, command |-> "top", cpu_threshold |-> JStr("high")],
               [type |-> kind, command |-> "top"]}
         [] OTHER ->
              {CheckNet, CheckAnyTraffic,
               [type |-> kind, threshold |-> JNum(1100000)],
               [type |-> kind, threshold |-> JStr("1GB")]}]

\* Rule files.
FileEmptyName ==
    JsonObject([name |-> "", type |-> "abuse", checks |-> JList(<<>>)])

FileChecksText ==
    JsonObject([name |-> "text", type |-> "abuse", checks |-> JStr("all")])

FilePool ==
    {JsonObject(StratMiner), JsonObject(StratNet), JsonInvalid, JsonOther,
     FileNoChecks, FileEmptyName, FileChecksText}

\* Message templates and evidence.
TokenPool ==
    {Lit("Found ")} \cup { Ph(n) : n \in Placeholders \cup {"hash"} }

\* Byte totals and what Python writes for them with "{x / 1024 / 1024:.2f}".
UsageSamples == {1100000, 131072, 393216}

UsageText(bytes) ==
    CASE bytes = 1100000 -> "1.05"
      [] bytes = 131072 -> "0.12"
      [] bytes = 393216 -> "0.38"

SampleValue(field, bytes) ==
    CASE field = "pattern" -> "stratum+tcp"
      [] field = "filename" -> "xmrig.exe"
      [] field = "dependency" -> "malicious-lib-v2"
      [] field = "usage" -> bytes
      [] field = "processes" -> <<"1 root xmrig", "7 root cpuminer">>

SampleText(field, bytes) ==
    CASE field = "usage" -> UsageText(bytes)
      [] field = "processes" -> "1 root xmrig, 7 root cpuminer"
      [] OTHER -> SampleValue(field, bytes)

\* Evidence records with every non-empty subset of the five fields.
EvidencePool ==
    { [f \in S |-> SampleValue(f, b)] :
        S \in (SUBSET Placeholders) \ {{}}, b \in UsageSamples }

\* Interfaces with one or both counters, and the lists of them.
Interfaces ==
    { [rx_bytes |-> r] : r \in {500000, 600000} }
      \cup { [tx_bytes |-> 500000] }
      \cup { [rx_bytes |-> r, tx_bytes |-> 500000] : r \in {500000, 600000} }

NetworkContexts ==
    { [CtxClean EXCEPT !.networks = n, !.statsOk = ok] :
        n \in SeqsUpTo(Interfaces, MaxIfaces), ok \in BOOLEAN }

\* The states of one container's volume directory and container.
WorldStates ==
    { [volume |-> FALSE, container |-> FALSE, ctx |-> CtxDirty],
      [volume |-> TRUE, container |-> FALSE, ctx |-> CtxDirty],
      [volume |-> TRUE, container |-> TRUE, ctx |-> CtxClean],
      [volume |-> TRUE, container |-> TRUE, ctx |-> CtxDirty],
      [volume |-> TRUE, container |-> TRUE, ctx |-> CtxFault] }

\* What docker_client.containers.get raises for a container it cannot give.
DockerErrors == {"NotFound", "Exception"}

\* flagged.json: missing, a JSON object whose keys are ids, or a truncated
\* file that json.load rejects.
StoreAbsent == [kind |-> "absent", ids |-> {}]
StoreValid(S) == [kind |-> "valid", ids |-> S]
StoreCorrupt == [kind |-> "corrupt", ids |-> {}]

\* Module level: flagged_containers = json.load(f) if the file exists, else {}.
LoadFlagged(st) == st.ids

\* All orders in which os.listdir may return the entries S.
Orderings(S) ==
    { s \in UNION { [1..n -> S] : n \in {Cardinality(S)} } :
        \A i, j \in DOMAIN s : i # j => s[i] # s[j] }

Bump(n) == IF n < MaxCount THEN n + 1 ELSE n

(***************************************************************************)
(* State.                                                                  *)
(***************************************************************************)
VARIABLES
    world,              \* per id: volume directory, container, contents
    ruleFiles,          \* the *.protect files of STRATEGIES_DIR
    store,              \* flagged.json
    flagged_containers, \* the in-memory dict (its keys mapped to True)
    strategies,         \* main's local: the loaded strategies
    caller,             \* per task: who awaits the sweep
    pc,                 \* per task: position in main / scan_all_containers
    listing,            \* per task: the list os.listdir returned
    idx,                \* per task: position of the for loop in listing
    flags,              \* per task: local flags of the current iteration
    server_id,          \* per task: local server_id of the current iteration
    event,              \* the effect of the last step
    trace,              \* per task: the steps of the current detection
    visited,            \* per task: ids whose iteration started this sweep
    sweepResult,        \* per task: how the last sweep ended
    nSuspend,           \* per id: suspension requests issued (saturating)
    nPublic,            \* per id: public alerts attempted (saturating)
    nPrivate,           \* per id: private alerts attempted (saturating)
    restarts,           \* process restarts so far
    marked,             \* ids ever marked in flagged_containers by a sweep
    call                \* a function called on its own: arguments, result

envVars == <<world, ruleFiles>>
taskVars == <<caller, pc, listing, idx, flags, server_id>>
countVars == <<nSuspend, nPublic, nPrivate>>
ghostVars == <<trace, visited, sweepResult, restarts, marked>>
vars == <<world, ruleFiles, store, flagged_containers, strategies,
          caller, pc, listing, idx, flags, server_id, event, trace, visited,
          sweepResult, nSuspend, nPublic, nPrivate, restarts, marked, call>>

Ev(t, op, id) == [task |-> t, op |-> op, id |-> id]

\* No function is called on its own.
NoCall == [fn |-> "none", state |-> "idle"]

InitEnv ==
    /\ world \in [Ids -> WorldStates]
    /\ ruleFiles \in RuleDirs
    /\ store \in {StoreAbsent, StoreValid({"u2"})}

InitCommon ==
    /\ InitEnv
    /\ flagged_containers = LoadFlagged(store)
    /\ listing = [t \in Tasks |-> <<>>]
    /\ idx = [t \in Tasks |-> 1]
    /\ flags = [t \in Tasks |-> <<>>]
    /\ server_id = [t \in Tasks |-> None]
    /\ event = Ev("none", "start", None)
    /\ trace = [t \in Tasks |-> <<>>]
    /\ visited = [t \in Tasks |-> <<>>]
    /\ sweepResult = [t \in Tasks |-> "none"]
    /\ nSuspend = [i \in Ids |-> 0]
    /\ nPublic = [i \in Ids |-> 0]
    /\ nPrivate = [i \in Ids |-> 0]
    /\ restarts = 0
    /\ marked = {}
    /\ call = NoCall

\* asyncio.run(main()): one task, about to load the strategies.
Init ==
    /\ InitCommon
    /\ strategies = <<>>
    /\ caller = [t \in Tasks |-> IF t = "t1" THEN "main" ELSE "none"]
    /\ pc = [t \in Tasks |-> IF t = "t1" THEN "load" ELSE "off"]

(***************************************************************************)
(* Helpers of the sweep.                                                   *)
(***************************************************************************)
\* The identifier the for loop of scan_all_containers is at.
Uuid(t) == listing[t][idx[t]]

\* The flagged test left out.
NeverFlagged(uuid) == FALSE

\* The flagged test inverted.
AlreadyFlaggedInverted(uuid) == uuid \notin flagged_containers

\* if flagged_containers.get(uuid): ... continue
AlreadyFlagged(uuid) == uuid \in flagged_containers

\* get_server_id_from_uuid: the id of the matching server, None when the
\* panel lists no such server, None when the request or its decoding raises.
get_server_id_from_uuid(uuid, outcome) ==
    IF outcome = "found" THEN PanelId(uuid) ELSE None

\* The test of the flag list left out: every scanned container is handled
\* as a detection.
AlwaysFlags(fl) == TRUE

\* if flags:
HasFlags(fl) == fl # <<>>

\* The suspension requested without the test of server_id.
AlwaysSuspend(sid) == TRUE

\* if server_id: await suspend_server(server_id)
ShouldSuspend(sid) == sid # None

\* server_id or "Unknown"
OrUnknown(sid) == IF sid = None THEN "Unknown" ELSE sid

\* "\n".join(flags)
RECURSIVE JoinLines(_)
JoinLines(fl) ==
    IF fl = <<>> THEN <<>>
    ELSE IF Len(fl) = 1 THEN fl[1]
    ELSE fl[1] \o <<Txt("\n")>> \o JoinLines(Tail(fl))

\* with open('flagged.json', 'w') as f: json.dump(flagged_containers, f)
\* open() truncates the file before anything is written.
WriteStore(old, data, outcome) ==
    CASE outcome = "ok" -> StoreValid(data)
      [] outcome = "openfail" -> old
      [] outcome = "partial" -> StoreCorrupt

\* suspend_server, send_public_alert, send_private_alert: each posts inside
\* try/except Exception, logs the status or the exception and returns.
suspend_server(outcome) == "returned"

\* send_public_alert without its try/except.
send_public_alert_unguarded(outcome) ==
    IF outcome = "error" THEN "raised" ELSE "returned"

send_public_alert(outcome) == "returned"

send_private_alert(outcome) == "returned"

\* main without its except clause: a sweep that raises ends the loop.
AfterSweepUncaught(t, outcome) ==
    IF outcome = "raised" THEN "done"
    ELSE IF caller[t] = "main" THEN "sleep" ELSE "done"

\* Where the task goes when scan_all_containers returns ("completed") or
\* raises ("raised"): main logs either and its finally clause sleeps; a bare
\* awaiter is done.
AfterSweep(t, outcome) == IF caller[t] = "main" THEN "sleep" ELSE "done"

\* The position after an iteration of the for loop ends normally or by
\* continue.
NextIteration(t) == [pos |-> "scan", idx |-> idx[t] + 1]

\* The try statement around the for loop instead of inside it: the first
\* exception ends the loop.
ExceptAbort(t) == [pos |-> "scan", idx |-> Len(listing[t]) + 1]

\* The except clause falling through to the statements after the call that
\* raised: the iteration goes on as a detection.
ExceptFallsThrough(t) == [pos |-> "resolve", idx |-> idx[t]]

\* except Exception as e: print(...) in the loop body: the loop goes on.
ExceptHandler(t) == NextIteration(t)

\* The position after server_id was assigned.
AfterResolve(t, sid) ==
    [pos |-> IF ShouldSuspend(sid) THEN "suspend" ELSE "public", idx |-> idx[t]]

\* Whether the previous step of the task ended an iteration in the except
\* clause.
WasError(t) ==
    /\ event.task = t
    /\ \/ event.op = "scanerror"
       \/ event.op = "mark" /\ event.result # "ok"

Goto(t, p) ==
    /\ pc' = [pc EXCEPT ![t] = p.pos]
    /\ idx' = [idx EXCEPT ![t] = p.idx]

Stay(t, pos) == [pos |-> pos, idx |-> idx[t]]

(***************************************************************************)
(* main(): load the strategies once, then sweep and sleep for ever.        *)
(***************************************************************************)
Load(t) ==
    /\ pc[t] = "load"
    /\ strategies' = load_strategies(ruleFiles)
    /\ pc' = [pc EXCEPT ![t] = "list"]
    /\ event' = Ev(t, "load", None)
    /\ UNCHANGED <<envVars, store, flagged_containers, caller, call, listing, idx,
                   flags, server_id, countVars, ghostVars>>

\* await asyncio.sleep(180), then the next iteration of while True.
Sleep(t) ==
    /\ pc[t] = "sleep"
    /\ pc' = [pc EXCEPT ![t] = "list"]
    /\ event' = [task |-> t, op |-> "sleep", id |-> None, seconds |-> SCAN_INTERVAL]
    /\ UNCHANGED <<envVars, store, flagged_containers, strategies, caller, call,
                   listing, idx, flags, server_id, countVars, ghostVars>>

(***************************************************************************)
(* scan_all_containers(strategies).                                        *)
(***************************************************************************)
\* for uuid in os.listdir(VOLUMES_DIR): the listing is taken once; when it
\* raises, the exception leaves scan_all_containers.
List(t) ==
    /\ pc[t] = "list"
    /\ \E readable \in BOOLEAN :
       IF readable
       THEN /\ \E l \in Orderings({i \in Ids : world[i].volume}) :
                 listing' = [listing EXCEPT ![t] = l]
            /\ idx' = [idx EXCEPT ![t] = 1]
            /\ pc' = [pc EXCEPT ![t] = "scan"]
            /\ sweepResult' = [sweepResult EXCEPT ![t] = "running"]
            /\ event' = Ev(t, "list", None)
       ELSE /\ listing' = [listing EXCEPT ![t] = <<>>]
            /\ idx' = [idx EXCEPT ![t] = 1]
            /\ pc' = [pc EXCEPT ![t] = AfterSweep(t, "raised")]
            /\ sweepResult' = [sweepResult EXCEPT ![t] = "raised"]
            /\ event' = Ev(t, "listfail", None)
    /\ visited' = [visited EXCEPT ![t] = <<>>]
    /\ trace' = [trace EXCEPT ![t] = <<>>]
    /\ UNCHANGED <<envVars, store, flagged_containers, strategies, caller, call,
                   flags, server_id, countVars, restarts, marked>>

\* One iteration up to the first await that suspends: the flagged test and
\* check_volume, whose coroutines never yield to the event loop.
Scan(t) ==
    /\ pc[t] = "scan"
    /\ idx[t] <= Len(listing[t])
    /\ visited' = [visited EXCEPT ![t] = Append(@, Uuid(t))]
    /\ \E exc \in DockerErrors :
       LET uuid == Uuid(t)
           r == check_volume(world[uuid], exc, strategies)
       IN  IF AlreadyFlagged(uuid)
           THEN /\ Goto(t, NextIteration(t))
                /\ event' = [task |-> t, op |-> "skip", id |-> uuid,
                              afterError |-> WasError(t)]
                /\ UNCHANGED <<flags, trace>>
           ELSE IF r.res = "raise"
           THEN /\ Goto(t, ExceptHandler(t))
                /\ event' = [task |-> t, op |-> "scanerror", id |-> uuid,
                              afterError |-> WasError(t)]
                /\ UNCHANGED <<flags, trace>>
           ELSE IF ~HasFlags(r.flags)
           THEN /\ Goto(t, NextIteration(t))
                /\ event' = [task |-> t, op |-> IF r.evaluated THEN "clean" ELSE "unavailable",
                              id |-> uuid, why |-> r.why, afterError |-> WasError(t)]
                /\ flags' = [flags EXCEPT ![t] = r.flags]
                /\ UNCHANGED trace
           ELSE /\ Goto(t, Stay(t, "resolve"))
                /\ event' = [task |-> t, op |-> "detect", id |-> uuid,
                              afterError |-> WasError(t)]
                /\ flags' = [flags EXCEPT ![t] = r.flags]
                /\ trace' = [trace EXCEPT ![t] = <<>>]
    /\ UNCHANGED <<envVars, store, flagged_containers, strategies, caller, call,
                   listing, server_id, countVars, sweepResult, restarts, marked>>

\* server_id = await get_server_id_from_uuid(uuid)
Resolve(t) ==
    /\ pc[t] = "resolve"
    /\ \E outcome \in {"found", "unknown", "error"} :
         LET sid == get_server_id_from_uuid(Uuid(t), outcome)
         IN  /\ server_id' = [server_id EXCEPT ![t] = sid]
             /\ Goto(t, AfterResolve(t, sid))
             /\ event' = [task |-> t, op |-> "resolve", id |-> Uuid(t), result |-> outcome]
    /\ trace' = [trace EXCEPT ![t] = Append(@, "resolve")]
    /\ UNCHANGED <<envVars, store, flagged_containers, strategies, caller, call,
                   listing, flags, countVars, visited, sweepResult,
                   restarts, marked>>

\* await suspend_server(server_id): logs the status or the exception.
Suspend(t) ==
    /\ pc[t] = "suspend"
    /\ \E outcome \in {"204", "status", "error"} :
         /\ event' = [task |-> t, op |-> "suspend", id |-> Uuid(t),
                       server |-> server_id[t], result |-> outcome]
         /\ Goto(t, IF suspend_server(outcome) = "raised"
                    THEN ExceptHandler(t) ELSE Stay(t, "public"))
    /\ nSuspend' = [nSuspend EXCEPT ![Uuid(t)] = Bump(@)]
    /\ trace' = [trace EXCEPT ![t] = Append(@, "suspend")]
    /\ UNCHANGED <<envVars, store, flagged_containers, strategies, caller, call,
                   listing, flags, server_id, nPublic, nPrivate, visited,
                   sweepResult, restarts, marked>>

\* await send_public_alert(uuid, server_id)
Public(t) ==
    /\ pc[t] = "public"
    /\ \E outcome \in {"2xx", "status", "error"} :
         /\ event' = [task |-> t, op |-> "public", id |-> Uuid(t),
                       container |-> OrUnknown(server_id[t]), result |-> outcome]
         /\ Goto(t, IF send_public_alert(outcome) = "raised"
                    THEN ExceptHandler(t) ELSE Stay(t, "private"))
    /\ nPublic' = [nPublic EXCEPT ![Uuid(t)] = Bump(@)]
    /\ trace' = [trace EXCEPT ![t] = Append(@, "public")]
    /\ UNCHANGED <<envVars, store, flagged_containers, strategies, caller, call,
                   listing, flags, server_id, nSuspend, nPrivate, visited,
                   sweepResult, restarts, marked>>

\* The embed of send_private_alert.
PrivateBody(uuid, sid, fl) ==
    [uuid |-> uuid, server |-> OrUnknown(sid), allFlags |-> JoinLines(fl)]

\* await send_private_alert(uuid, server_id, flags)
Private(t) ==
    /\ pc[t] = "private"
    /\ \E outcome \in {"2xx", "status", "error"} :
         /\ event' = [task |-> t, op |-> "private", id |-> Uuid(t),
                       body |-> PrivateBody(Uuid(t), server_id[t], flags[t]),
                       result |-> outcome]
         /\ Goto(t, IF send_private_alert(outcome) = "raised"
                    THEN ExceptHandler(t) ELSE Stay(t, "mark"))
    /\ nPrivate' = [nPrivate EXCEPT ![Uuid(t)] = Bump(@)]
    /\ trace' = [trace EXCEPT ![t] = Append(@, "private")]
    /\ UNCHANGED <<envVars, store, flagged_containers, strategies, caller, call,
                   listing, flags, server_id, nSuspend, nPublic, visited,
                   sweepResult, restarts, marked>>

\* flagged_containers[uuid] = True, then the rewrite of flagged.json; an
\* exception of the write is caught by the except clause of the loop body.
\* The iteration ends here: its locals flags and server_id are dead (each is
\* assigned again before it is read) and are cleared.
Mark(t) ==
    /\ pc[t] = "mark"
    /\ flagged_containers' = flagged_containers \cup {Uuid(t)}
    /\ \E outcome \in {"ok", "openfail", "partial"} :
         /\ store' = WriteStore(store, flagged_containers', outcome)
         /\ event' = [task |-> t, op |-> "mark", id |-> Uuid(t), result |-> outcome,
                       server |-> server_id[t], steps |-> Append(trace[t], "mark"),
                       alert |-> IF event.task = t /\ event.op = "private"
                                 THEN event.result ELSE "unknown"]
         /\ Goto(t, IF outcome = "ok" THEN NextIteration(t) ELSE ExceptHandler(t))
    /\ trace' = [trace EXCEPT ![t] = <<>>]
    /\ flags' = [flags EXCEPT ![t] = <<>>]
    /\ server_id' = [server_id EXCEPT ![t] = None]
    /\ marked' = marked \cup {Uuid(t)}
    /\ UNCHANGED <<envVars, strategies, caller, call, listing, countVars, visited,
                   sweepResult, restarts>>

\* The for loop is exhausted: scan_all_containers returns.
Return(t) ==
    /\ pc[t] = "scan"
    /\ idx[t] > Len(listing[t])
    /\ pc' = [pc EXCEPT ![t] = AfterSweep(t, "completed")]
    /\ sweepResult' = [sweepResult EXCEPT ![t] = "completed"]
    /\ event' = Ev(t, "return", None)
    /\ UNCHANGED <<envVars, store, flagged_containers, strategies, caller, call,
                   listing, idx, flags, server_id, countVars, trace, visited,
                   restarts, marked>>

(***************************************************************************)
(* The environment: volumes and containers come, go and change; the rule   *)
(* files are replaced.                                                     *)
(***************************************************************************)
EnvWorld ==
    /\ \E i \in Ids, w \in WorldStates :
         /\ w # world[i]
         /\ world' = [world EXCEPT ![i] = w]
    /\ UNCHANGED <<event, call, ruleFiles, store, flagged_containers, strategies,
                   taskVars, countVars, ghostVars>>

EnvRules ==
    /\ ruleFiles = RulesDeployed
    /\ ruleFiles' = RulesBroken
    /\ UNCHANGED <<event, call, world, store, flagged_containers, strategies,
                   taskVars, countVars, ghostVars>>

Step(t) ==
    \/ Load(t)
    \/ Sleep(t)
    \/ List(t)
    \/ Scan(t)
    \/ Resolve(t)
    \/ Suspend(t)
    \/ Public(t)
    \/ Private(t)
    \/ Mark(t)
    \/ Return(t)

Program == \E t \in Tasks : Step(t)

Next ==
    \/ Program
    \/ EnvWorld
    \/ EnvRules

Spec == Init /\ [][Next]_vars

\* The event loop runs the task whenever it can take a step.
FairSpec == Spec /\ WF_vars(Program)

\* check_volume returns a non-empty flag list for the identifier.
Matches(i) ==
    LET r == check_volume(world[i], "NotFound", strategies)
    IN  r.res = "ok" /\ r.flags # <<>>

(***************************************************************************)
(* Two executions of scan_all_containers awaited together on one event     *)
(* loop (asyncio.gather), sharing flagged_containers.                      *)
(***************************************************************************)
InitOverlap ==
    /\ InitCommon
    /\ strategies = load_strategies(ruleFiles)
    /\ caller = [t \in Tasks |-> "gather"]
    /\ pc = [t \in Tasks |-> "list"]

Sweep(t) ==
    \/ List(t)
    \/ Scan(t)
    \/ Resolve(t)
    \/ Suspend(t)
    \/ Public(t)
    \/ Private(t)
    \/ Mark(t)
    \/ Return(t)

NextOverlap == \E t \in Tasks : Sweep(t)

SpecOverlap == InitOverlap /\ [][NextOverlap]_vars

(***************************************************************************)
(* The process is stopped at any point and started again: the module level *)
(* code reads flagged.json; json.load of a truncated file raises and the   *)
(* process ends before main() runs.                                        *)
(***************************************************************************)
Restart ==
    /\ restarts < MaxRestarts
    /\ restarts' = restarts + 1
    /\ flagged_containers' = LoadFlagged(store)
    /\ strategies' = <<>>
    /\ pc' = [t \in Tasks |->
                IF caller[t] # "main" THEN pc[t]
                ELSE IF store.kind = "corrupt" THEN "crashed" ELSE "load"]
    /\ listing' = [t \in Tasks |-> <<>>]
    /\ idx' = [t \in Tasks |-> 1]
    /\ flags' = [t \in Tasks |-> <<>>]
    /\ server_id' = [t \in Tasks |-> None]
    /\ trace' = [t \in Tasks |-> <<>>]
    /\ visited' = [t \in Tasks |-> <<>>]
    /\ sweepResult' = [t \in Tasks |-> "none"]
    /\ event' = Ev("none", "restart", None)
    /\ UNCHANGED <<envVars, store, caller, call, countVars, marked>>

\* The volumes, containers and rule files stay as they are at the start.
NextRestart ==
    \/ Program
    \/ Restart

SpecRestart == Init /\ [][NextRestart]_vars

(***************************************************************************)
(* A call that does not return.  The evaluators read files and call the    *)
(* docker daemon synchronously on the thread of the event loop (open() of  *)
(* a FIFO in the volume waits for a writer for ever), and the loop of      *)
(* scan_all_containers awaits every collaborator call before it goes on.   *)
(***************************************************************************)
Block(t) ==
    /\ pc[t] \in {"scan", "resolve", "suspend", "public", "private"}
    /\ pc[t] = "scan" =>
          /\ idx[t] <= Len(listing[t])
          /\ ~AlreadyFlagged(Uuid(t))
          /\ world[Uuid(t)].volume /\ world[Uuid(t)].container
    /\ pc' = [pc EXCEPT ![t] = "blocked"]
    /\ visited' = [visited EXCEPT ![t] =
                     IF pc[t] = "scan" THEN Append(@, Uuid(t)) ELSE @]
    /\ event' = [task |-> t, op |-> "blocked", id |-> Uuid(t), at |-> pc[t]]
    /\ UNCHANGED <<envVars, store, flagged_containers, strategies, caller, call,
                   listing, idx, flags, server_id, countVars, trace,
                   sweepResult, restarts, marked>>

NextBlocking ==
    \/ Program
    \/ \E t \in Tasks : Block(t)

\* The event loop runs a task that can run.
SpecBlocking == Init /\ [][NextBlocking]_vars /\ WF_vars(Program)

(***************************************************************************)
(* The functions of the strategy engine called on their own: call holds    *)
(* the arguments and, once the function has returned, the result.          *)
(***************************************************************************)
Pending(fn, args) == [fn |-> fn, state |-> "pending", args |-> args]

Returned(c, out) == [fn |-> c.fn, state |-> "returned", args |-> c.args, out |-> out]

CallArgs ==
    { Pending("execute_strategy", [strategy |-> StrategyOf(cs), ctx |-> c]) :
        cs \in SeqsUpTo(CheckPool, MaxChecks), c \in Contexts }
    \cup
    { Pending("check_volume", [w |-> w, exc |-> "NotFound", strats |-> ss]) :
        w \in WorldStates \cup {[volume |-> TRUE, container |-> TRUE, ctx |-> CtxBusy]},
        ss \in SeqsUpTo(StrategyPool, MaxStrategies) }
    \cup
    UNION { { Pending("evaluator", [kind |-> k, check_config |-> cfg, ctx |-> c]) :
                cfg \in EvaluatorConfigs[k], c \in Contexts } :
            k \in DOMAIN EvaluatorConfigs }
    \cup
    { Pending("network_usage_check", [check_config |-> cfg, ctx |-> c]) :
        cfg \in EvaluatorConfigs["network_usage"], c \in NetworkContexts }
    \cup
    { Pending("load_strategies", [files |-> fs]) : fs \in SeqsUpTo(FilePool, MaxFiles) }
    \cup
    { Pending("replace_placeholders", [template |-> t, data |-> d]) :
        t \in SeqsUpTo(TokenPool, MaxTokens), d \in EvidencePool }

\* The evaluator of a kind, as file_check and execute_strategy select it.
Evaluator(kind, ctx, check_config) ==
    CASE kind = "file_existence" -> file_existence_check(ctx, check_config)
      [] kind = "file_content" -> file_content_check(ctx, check_config)
      [] kind = "file_size" -> file_size_check(ctx, check_config)
      [] kind = "dependency" -> dependency_check(ctx, check_config)
      [] kind = "log_content" -> log_content_check(ctx, check_config)
      [] kind = "process_check" -> process_check(ctx, check_config)
      [] kind = "network_usage" -> network_usage_check(ctx, check_config)

InitCalls ==
    /\ world = [i \in Ids |-> [volume |-> TRUE, container |-> TRUE, ctx |-> CtxClean]]
    /\ ruleFiles = RulesDeployed
    /\ store = StoreAbsent
    /\ flagged_containers = {}
    /\ strategies = <<>>
    /\ caller = [t \in Tasks |-> "none"]
    /\ pc = [t \in Tasks |-> "off"]
    /\ listing = [t \in Tasks |-> <<>>]
    /\ idx = [t \in Tasks |-> 1]
    /\ flags = [t \in Tasks |-> <<>>]
    /\ server_id = [t \in Tasks |-> None]
    /\ event = Ev("none", "start", None)
    /\ trace = [t \in Tasks |-> <<>>]
    /\ visited = [t \in Tasks |-> <<>>]
    /\ sweepResult = [t \in Tasks |-> "none"]
    /\ nSuspend = [i \in Ids |-> 0]
    /\ nPublic = [i \in Ids |-> 0]
    /\ nPrivate = [i \in Ids |-> 0]
    /\ restarts = 0
    /\ marked = {}
    /\ call \in CallArgs

Frame ==
    UNCHANGED <<world, ruleFiles, store, flagged_containers, strategies, caller,
                pc, listing, idx, flags, server_id, event, trace, visited,
                sweepResult, nSuspend, nPublic, nPrivate, restarts, marked>>

CallExecuteStrategy ==
    /\ call.state = "pending" /\ call.fn = "execute_strategy"
    /\ call' = Returned(call, execute_strategy(call.args.strategy, call.args.ctx))
    /\ Frame

CallCheckVolume ==
    /\ call.state = "pending" /\ call.fn = "check_volume"
    /\ call' = Returned(call, check_volume(call.args.w, call.args.exc, call.args.strats))
    /\ Frame

CallEvaluator ==
    /\ call.state = "pending" /\ call.fn = "evaluator"
    /\ call' = Returned(call, Evaluator(call.args.kind, call.args.ctx,
                                        call.args.check_config))
    /\ Frame

CallNetworkUsage ==
    /\ call.state = "pending" /\ call.fn = "network_usage_check"
    /\ call' = Returned(call, network_usage_check(call.args.ctx, call.args.check_config))
    /\ Frame

CallLoadStrategies ==
    /\ call.state = "pending" /\ call.fn = "load_strategies"
    /\ call' = Returned(call, load_strategies(call.args.files))
    /\ Frame

CallReplacePlaceholders ==
    /\ call.state = "pending" /\ call.fn = "replace_placeholders"
    /\ call' = Returned(call, replace_placeholders(call.args.template, call.args.data))
    /\ Frame

NextCalls ==
    \/ CallExecuteStrategy
    \/ CallCheckVolume
    \/ CallEvaluator
    \/ CallNetworkUsage
    \/ CallLoadStrategies
    \/ CallReplacePlaceholders

SpecCalls == InitCalls /\ [][NextCalls]_vars

\* The function has returned from a call on its own.
Done(fn) == call.fn = fn /\ call.state = "returned"

(***************************************************************************)
(* Properties.                                                             *)
(***************************************************************************)
\* The task is between a non-empty scan result and the marking of its id.
InDetection(t) == pc[t] \in {"resolve", "suspend", "public", "private", "mark"}

\* The step is one of the program (every step of a task writes event).
ProgramStep == event' # event

\* The step is the first part of a loop iteration of task t, on identifier i.
ScanStep(t, i) ==
    /\ ProgramStep
    /\ pc[t] = "scan"
    /\ event'.task = t
    /\ event'.op \in {"skip", "scanerror", "clean", "unavailable", "detect"}
    /\ event'.id = i

\* C1: when two sweeps overlap on one FlaggedState and both see the same
\* unflagged identifier with a non-empty flag list, the identifier gets one
\* public and one private alert and at most one suspension request, and ends
\* marked: stated for the moment both sweeps have returned.
C1_OneContainmentWhenOverlapping ==
    (\A t \in Tasks : pc[t] = "done") =>
        \A i \in marked :
            /\ i \in flagged_containers
            /\ nPublic[i] = 1
            /\ nPrivate[i] = 1
            /\ nSuspend[i] <= 1

\* C2: once an identifier is in flagged_containers, no step of a later sweep
\* evaluates strategies against it, requests its suspension or alerts about
\* it (the only thing a sweep does with it is to pass over it), so that each
\* identifier gets at most one suspension request, one public and one private
\* alert.
C2_FlaggedNeverReprocessed ==
    /\ [](\A i \in Ids : nSuspend[i] <= 1 /\ nPublic[i] <= 1 /\ nPrivate[i] <= 1)
    /\ [][\A i \in flagged_containers :
            /\ nSuspend'[i] = nSuspend[i]
            /\ nPublic'[i] = nPublic[i]
            /\ nPrivate'[i] = nPrivate[i]
            /\ (ProgramStep /\ event'.id = i) => event'.op = "skip"]_vars

C2_Witness ==
    /\ event.op = "skip"
    /\ event.id \in marked
    /\ Matches(event.id)

\* C3: a scan that yields a non-empty flag list starts a detection, and a
\* detection ends only by marking its identifier in flagged_containers,
\* whatever the resolution, the suspension request, the alerts and the write
\* of flagged.json do.
C3_DetectionAlwaysMarks ==
    [][/\ (ProgramStep /\ event'.op = "detect") =>
            /\ pc'[event'.task] = "resolve"
            /\ flags'[event'.task] # <<>>
       /\ \A t \in Tasks : InDetection(t) =>
            \/ InDetection(t)' /\ Uuid(t)' = Uuid(t)
            \/ /\ pc[t] = "mark"
               /\ Uuid(t) \in flagged_containers'
               /\ event'.op = "mark"]_vars

C3_Witness ==
    /\ event.op = "mark"
    /\ event.server = None
    /\ event.alert = "error"
    /\ event.id \in flagged_containers

Expected(sid) ==
    IF sid # None
    THEN <<"resolve", "suspend", "public", "private", "mark">>
    ELSE <<"resolve", "public", "private", "mark">>

IsPrefix(a, b) == Len(a) <= Len(b) /\ SubSeq(b, 1, Len(a)) = a

\* C5: the steps of a detection are resolve, suspend (exactly when the
\* resolution returned a server id), public alert, private alert, mark, each
\* once and in this order; the suspension names the resolved server and the
\* private alert carries all flags of the scan, joined.
C5_DetectionOrder ==
    /\ \A t \in Tasks : InDetection(t) =>
          IsPrefix(Append(trace[t], pc[t]), Expected(server_id[t]))
    /\ event.op = "mark" => event.steps = Expected(event.server)
    /\ event.op = "suspend" => event.server = PanelId(event.id)
    /\ event.op = "private" =>
          /\ event.body.uuid = event.id
          /\ event.body.allFlags = JoinLines(StrategiesFlags(strategies, CtxDirty))
          /\ event.body.allFlags # <<>>

C5_Witness ==
    /\ event.op = "mark"
    /\ event.server # None
    /\ Len(event.steps) = 5

\* C6: an exception in one iteration of the sweep (from the scan or from the
\* write of flagged.json; the collaborators raise nothing) leaves the task in
\* the loop at the next identifier, and a sweep whose listing succeeded ends
\* completed, having visited every listed identifier.
C6_ExceptionsDoNotStopSweep ==
    \A t \in Tasks :
        /\ sweepResult[t] = "completed" => visited[t] = listing[t]
        /\ sweepResult[t] = "raised" => visited[t] = <<>> /\ event.op # "return"
        /\ WasError(t) =>
              /\ pc[t] = "scan"
              /\ sweepResult[t] = "running"
              /\ idx[t] = Len(visited[t]) + 1
        /\ pc[t] = "scan" => IsPrefix(visited[t], listing[t])

C6_Witness ==
    /\ event.op = "detect"
    /\ event.afterError

\* C7: main loads the strategies once and never changes them; every sweep,
\* completed or raised, is followed by one sleep of 180 seconds and then by
\* the next sweep; sweeps are started infinitely often.
C7_SchedulerNeverStops ==
    /\ [][/\ pc["t1"] # "load" => strategies' = strategies
          /\ (ProgramStep /\ event'.op \in {"listfail", "return"}) =>
                pc'["t1"] = "sleep"
          /\ (pc["t1"] = "sleep" /\ pc'["t1"] # "sleep") =>
                /\ pc'["t1"] = "list"
                /\ event'.op = "sleep"
                /\ event'.seconds = SCAN_INTERVAL
          /\ (pc'["t1"] = "list" /\ pc["t1"] # "list") =>
                pc["t1"] \in {"load", "sleep"}
          /\ pc'["t1"] \notin {"done", "off", "crashed"}]_vars
    /\ []<>(pc["t1"] = "list")
    /\ []<>(pc["t1"] = "scan" \/ sweepResult["t1"] = "raised")

C7_Witness ==
    /\ event.op = "sleep"
    /\ sweepResult["t1"] = "raised"
    /\ pc["t1"] = "list"

\* C8: the scan of an unflagged identifier whose volume directory or
\* container is not there changes neither flagged_containers nor
\* flagged.json, evaluates no strategy, requests no suspension and sends no
\* alert; the sweep goes on, and the identifier stays unflagged for the next
\* sweep.
C8_UnavailableIsLeftAlone ==
    /\ [][\A t \in Tasks, i \in Ids :
            (/\ ScanStep(t, i)
             /\ i \notin flagged_containers
             /\ (~world[i].volume \/ ~world[i].container)) =>
                /\ event'.op = "unavailable"
                /\ flagged_containers' = flagged_containers
                /\ store' = store
                /\ nSuspend' = nSuspend
                /\ nPublic' = nPublic
                /\ nPrivate' = nPrivate
                /\ pc'[t] = "scan"
                /\ idx'[t] = idx[t] + 1]_vars
    /\ [](event.op = "unavailable" => event.id \notin flagged_containers)

C8_Witness ==
    /\ event.op = "unavailable"
    /\ event.why = "Exception"
    /\ world[event.id].volume

\* C9: no step removes an identifier from flagged_containers or from
\* flagged.json, and the step that marks an identifier leaves it in both
\* before the task goes on to another identifier.
C9_FlaggedStateMonotonic ==
    [][/\ flagged_containers \subseteq flagged_containers'
       /\ store.ids \subseteq store'.ids
       /\ (ProgramStep /\ event'.op = "mark") =>
            /\ event'.id \in flagged_containers'
            /\ event'.id \in store'.ids]_vars

\* C10: flagged.json can always be loaded, after each detection it holds every
\* identifier of flagged_containers, those loaded at the start included, and
\* an identifier marked before a restart is flagged after it and gets no
\* second suspension request or alert.
C10_StoreSurvivesRestart ==
    /\ \A t \in Tasks : pc[t] # "crashed"
    /\ store.kind # "corrupt"
    /\ event.op = "mark" => flagged_containers \subseteq store.ids
    /\ marked \subseteq flagged_containers
    /\ \A i \in Ids : nSuspend[i] <= 1 /\ nPublic[i] <= 1 /\ nPrivate[i] <= 1

\* C11: when a call made for one identifier does not return, the iteration
\* of every other identifier of the listing is still started and ended.
C11_BlockedCallDelaysNoOther ==
    \A t \in Tasks :
        [](pc[t] = "blocked" =>
              <>(visited[t] = listing[t]))

\* The closed set of check kinds.
ClosedKinds ==
    {"file_existence", "file_content", "file_size", "dependency", "log_content",
     "process_check", "network_usage"}

\* The check is no record, has no kind, or has a kind outside the closed set.
BadKind(check_config) ==
    \/ "notdict" \in DOMAIN check_config
    \/ "type" \notin DOMAIN check_config
    \/ check_config.type \notin ClosedKinds

\* What the evaluator the check selects returns for the container.
Match(check_config, ctx) ==
    IF BadKind(check_config) THEN False_
    ELSE IF check_config.type \in FileKinds THEN file_check(ctx, check_config)
    ELSE Evaluator(check_config.type, ctx, check_config)

\* The checks of the call of execute_strategy, and its container context.
CallChecks == call.args.strategy.checks.v
CallCtx == call.args.ctx

\* C12: a check that is no record, has no kind or has a kind outside the
\* closed set adds no flag, and execute_strategy returns what it returns for
\* the strategy without these checks.
C12_UnknownKindIsSkipped ==
    Done("execute_strategy") =>
        LET Good(c) == ~BadKind(c)
        IN  /\ call.out = execute_strategy(
                              StrategyOf(SelectSeq(CallChecks, Good)), CallCtx)
            /\ Len(call.out) <= Len(SelectSeq(CallChecks, Good))

C12_Witness ==
    /\ Done("execute_strategy")
    /\ \E i, j \in DOMAIN CallChecks :
         /\ i < j
         /\ BadKind(CallChecks[i])
         /\ Match(CallChecks[j], CallCtx).res = "evidence"
    /\ call.out # <<>>

\* C13: execute_strategy returns a flag sequence whatever the checks raise,
\* the same as for the strategy without the checks whose evaluation or
\* rendering raised; check_volume appends the flags of every strategy.
C13_ExceptionInCheckIsContained ==
    /\ Done("execute_strategy") =>
         LET Quiet(c) == CheckOutcome(c, CallCtx).res # "caught"
         IN  /\ call.out = execute_strategy(
                               StrategyOf(SelectSeq(CallChecks, Quiet)), CallCtx)
             /\ \A i \in DOMAIN CallChecks :
                  Match(CallChecks[i], CallCtx).res = "raise"
                     => CheckFlags(CallChecks[i], CallCtx) = <<>>
    /\ (Done("check_volume") /\ call.out.res = "ok" /\ call.out.evaluated) =>
         LET Quiet(c) == CheckOutcome(c, call.args.w.ctx).res # "caught"
             Calm(st) == [st EXCEPT !.checks = JList(SelectSeq(st.checks.v, Quiet))]
         IN  call.out.flags =
               StrategiesFlags([i \in DOMAIN call.args.strats |->
                                   Calm(call.args.strats[i])], call.args.w.ctx)

C13_Witness ==
    /\ Done("execute_strategy")
    /\ \E i, j \in DOMAIN CallChecks :
         /\ i < j
         /\ Match(CallChecks[i], CallCtx).res = "raise"
         /\ Match(CallChecks[j], CallCtx).res = "evidence"
    /\ call.out # <<>>

\* C14: each evaluator returns no-match or an Evidence and raises nothing,
\* for every container context and check config.
C14_EvaluatorsNeverRaise ==
    Done("evaluator") => call.out.res \in {"False", "evidence"}

\* The message of a matching check: its template, or the default, rendered
\* with the evidence.
Rendered(check_config, ctx) ==
    replace_placeholders(Get(check_config, "message", DefaultMessage),
                         Match(check_config, ctx).data)

\* C15: the flags execute_strategy returns are the rendered messages of the
\* checks that match, one for each, in the order of the checks; check_volume
\* returns the flags of the strategies in the order of the strategies.
C15_FlagsAreTheMatchingChecks ==
    /\ Done("execute_strategy") =>
         LET Matching(c) == Match(c, CallCtx).res = "evidence"
             matching == SelectSeq(CallChecks, Matching)
         IN  /\ Len(call.out) = Len(matching)
             /\ \A k \in DOMAIN matching :
                  /\ Rendered(matching[k], CallCtx).res = "ok"
                  /\ call.out[k] = Rendered(matching[k], CallCtx).msg
    /\ (Done("check_volume") /\ call.out.res = "ok" /\ call.out.evaluated) =>
         call.out.flags = StrategiesFlags(call.args.strats, call.args.w.ctx)

\* C16: with an empty strategy set the sweeps still run and scan the
\* containers, every scan of an unflagged container ends without flags, and
\* no identifier is marked, no suspension is requested and no alert is sent,
\* however the containers look and however many sweeps run.
C16_NoStrategiesNoDetection ==
    /\ [][\A t \in Tasks, i \in Ids :
            (/\ ScanStep(t, i)
             /\ strategies = <<>>
             /\ i \notin flagged_containers) =>
                /\ event'.op \in {"clean", "unavailable", "scanerror"}
                /\ pc'[t] = "scan"
                /\ idx'[t] = idx[t] + 1
                /\ flagged_containers' = flagged_containers
                /\ store' = store]_vars
    /\ []((pc["t1"] # "load" /\ strategies = <<>>) =>
            /\ marked = {}
            /\ flagged_containers = LoadFlagged(store)
            /\ \A i \in Ids : nSuspend[i] = 0 /\ nPublic[i] = 0 /\ nPrivate[i] = 0
            /\ \A t \in Tasks : ~InDetection(t))

\* A container that the deployed rules would flag was scanned last in a
\* sweep over two containers with no strategy loaded, and came out clean.
C16_Witness ==
    /\ strategies = <<>>
    /\ event.op = "clean"
    /\ world[event.id].ctx = CtxDirty
    /\ Len(listing[event.task]) = 2
    /\ visited[event.task] = listing[event.task]

\* A rule file that parses to an object with a non-empty name, a non-empty
\* type and a list of checks.
WellFormed(file) ==
    /\ file.parse = "object"
    /\ {"name", "type", "checks"} \subseteq DOMAIN file.obj
    /\ file.obj.name # ""
    /\ file.obj.type # ""
    /\ file.obj.checks.t = "list"

\* C17: load_strategies returns a list (it does not raise) that holds, in
\* the order of the files, exactly the well-formed rule files, each as the
\* object the file holds; every other file is left out and changes nothing
\* about the files before and after it.
C17_LoaderKeepsExactlyWellFormed ==
    Done("load_strategies") =>
        LET files == call.args.files
            good == {k \in DOMAIN files : WellFormed(files[k])}
            rank(k) == Cardinality({j \in good : j <= k})
        IN  /\ DOMAIN call.out = 1..Cardinality(good)
            /\ \A k \in good : call.out[rank(k)] = files[k].obj

\* A file whose checks value is text and a file that does not parse stand
\* before a well-formed file, which alone is loaded.
C17_Witness ==
    /\ Done("load_strategies")
    /\ call.args.files = <<FileChecksText, JsonInvalid, JsonObject(StratNet)>>
    /\ call.out = <<StratNet>>

\* The text one token of a template stands for in the rendered message.
TokenText(tok, data) ==
    IF "lit" \in DOMAIN tok THEN tok.lit
    ELSE IF tok.ph \in DOMAIN data
         THEN SampleText(tok.ph, IF "usage" \in DOMAIN data THEN data.usage ELSE 0)
         ELSE IF tok.ph = "usage" THEN "0.00" ELSE ""

RECURSIVE TemplateText(_, _)
TemplateText(template, data) ==
    IF template = <<>> THEN ""
    ELSE TokenText(Head(template), data) \o TemplateText(Tail(template), data)

\* Every placeholder of the template is one of the five.
KnownPlaceholders(template) ==
    \A k \in DOMAIN template :
        "ph" \in DOMAIN template[k] => template[k].ph \in Placeholders

\* C18: for a template whose placeholders are among pattern, filename,
\* dependency, usage and processes, replace_placeholders returns a message
\* whatever fields the Evidence has: a field that is there is written with
\* its value, an absent pattern, filename, dependency or processes as the
\* empty string, an absent usage as "0.00".
C18_KnownPlaceholdersAlwaysRender ==
    (Done("replace_placeholders") /\ KnownPlaceholders(call.args.template)) =>
        /\ call.out.res = "ok"
        /\ Text(call.out.msg) = TemplateText(call.args.template, call.args.data)

\* A template with {usage} and {processes} was rendered for an Evidence that
\* has neither.
C18_Witness ==
    /\ Done("replace_placeholders")
    /\ call.args.template = <<Ph("usage"), Ph("processes")>>
    /\ DOMAIN call.args.data = {"filename"}
    /\ Text(call.out.msg) = "0.00"

\* The sum of one counter over the interfaces that report it.
RECURSIVE CounterSum(_, _)
CounterSum(nets, counter) ==
    IF nets = <<>> THEN 0
    ELSE (IF counter \in DOMAIN Head(nets) THEN Head(nets)[counter] ELSE 0)
         + CounterSum(Tail(nets), counter)

\* n hundredths is total / 1048576 rounded to two decimals.
RoundsTo(total, n) ==
    LET d == 100 * total - n * 1048576
    IN  2 * d <= 1048576 /\ 2 * d >= -1048576

\* C19: with the statistics at hand and a numeric threshold (0 when none is
\* configured), network_usage_check matches exactly when the received plus
\* the transmitted bytes of all interfaces, a missing counter counting as
\* zero, are more than the threshold; a total equal to the threshold is no
\* match.  The Evidence of a match has that total as usage, and the message
\* writes it as total / 1048576 with two decimals: "1.05" for 1,100,000.
C19_NetworkUsageStrictThreshold ==
    Done("network_usage_check") =>
        LET nets == call.args.ctx.networks
            cfg == call.args.check_config
            total == CounterSum(nets, "rx_bytes") + CounterSum(nets, "tx_bytes")
            threshold == IF "threshold" \in DOMAIN cfg THEN cfg.threshold ELSE JNum(0)
        IN  IF call.args.ctx.statsOk /\ threshold.t = "num"
            THEN /\ (call.out.res = "evidence") <=> (total > threshold.v)
                 /\ call.out.res # "evidence" => call.out = False_
                 /\ call.out.res = "evidence" =>
                      LET message == replace_placeholders(<<Ph("usage")>>, call.out.data)
                      IN  /\ call.out.data = [usage |-> total]
                          /\ message.res = "ok"
                          /\ Len(message.msg) = 1
                          /\ RoundsTo(total, message.msg[1].fixed2)
                          /\ total = 1100000 => Text(message.msg) = "1.05"
            ELSE call.out = False_

\* Two interfaces, one without its transmit and one without its receive
\* counter, sum to 1,100,000 against a threshold of 1,000,000: a match whose
\* usage is written "1.05".
C19_Witness ==
    /\ Done("network_usage_check")
    /\ call.args.ctx.statsOk
    /\ call.args.ctx.networks = <<[rx_bytes |-> 600000], [tx_bytes |-> 500000]>>
    /\ call.args.check_config = CheckNet
    /\ call.out = Evidence([usage |-> 1100000])
    /\ Text(replace_placeholders(CheckNet.message, call.out.data).msg)
         = "Network usage 1.05 MB"

\* Two interfaces sum to exactly the threshold of 1,000,000: no match.
C19_WitnessEqual ==
    /\ Done("network_usage_check")
    /\ call.args.ctx.statsOk
    /\ call.args.ctx.networks = <<[rx_bytes |-> 500000], [tx_bytes |-> 500000]>>
    /\ call.args.check_config = CheckNet
    /\ call.out = False_

\* Task t is handling a detection of identifier i.
Detecting(t, i) ==
    /\ InDetection(t)
    /\ idx[t] \in DOMAIN listing[t]
    /\ Uuid(t) = i

\* C20: an iteration enters the detection (resolve, suspend, alerts, mark)
\* only from a scan of its identifier in this sweep for which check_volume
\* returned a non-empty flag list; a scan that was skipped, raised or
\* returned no flags ends the iteration with nothing marked, requested or
\* sent.  A suspension request, an alert or a mark for an identifier happens
\* only in such a detection of it, and every identifier marked by a sweep
\* has had exactly one detection: one public alert, one private alert and
\* at most one suspension request.
C20_MarkedOnlyAfterDetection ==
    /\ [][\A t \in Tasks, i \in Ids :
            ScanStep(t, i) =>
                IF event'.op = "detect"
                THEN /\ i \notin flagged_containers
                     /\ flags'[t] # <<>>
                     /\ \E exc \in DockerErrors :
                          LET r == check_volume(world[i], exc, strategies)
                          IN  r.res = "ok" /\ r.flags = flags'[t]
                     /\ pc'[t] = "resolve"
                     /\ idx'[t] = idx[t]
                ELSE /\ pc'[t] = "scan"
                     /\ idx'[t] = idx[t] + 1
                     /\ flagged_containers' = flagged_containers
                     /\ marked' = marked
                     /\ <<nSuspend, nPublic, nPrivate>>' = <<nSuspend, nPublic, nPrivate>>]_vars
    /\ [][\A t \in Tasks :
            (pc[t] \notin {"scan", "resolve", "suspend", "public", "private", "mark"})
                => ~InDetection(t)']_vars
    /\ [][\A i \in Ids :
            (\/ i \in flagged_containers' \ flagged_containers
             \/ i \in marked' \ marked
             \/ nSuspend'[i] # nSuspend[i]
             \/ nPublic'[i] # nPublic[i]
             \/ nPrivate'[i] # nPrivate[i]) =>
                \E t \in Tasks :
                    /\ Detecting(t, i)
                    /\ flags[t] # <<>>
                    /\ event'.task = t]_vars
    /\ [][flagged_containers' \ flagged_containers \subseteq marked']_vars
    /\ [](\A i \in Ids :
            /\ i \in marked =>
                /\ i \in flagged_containers
                /\ nPublic[i] = 1
                /\ nPrivate[i] = 1
                /\ nSuspend[i] <= 1
            /\ (i \notin marked /\ \A t \in Tasks : ~Detecting(t, i)) =>
                nSuspend[i] = 0 /\ nPublic[i] = 0 /\ nPrivate[i] = 0)

\* An identifier was marked after its one detection, while another one,
\* whose container answers no check, has nothing marked, requested or sent.
C20_Witness ==
    /\ event.op = "mark"
    /\ event.id \in marked
    /\ nPublic[event.id] = 1
    /\ \E i \in Ids : i # event.id /\ i \notin flagged_containers
                      /\ nPublic[i] = 0 /\ world[i].ctx = CtxFault

====
